---- MODULE Spec2Model ----
(***************************************************************************)
(* Model of the retrieval core of the MEU chatbot:                         *)
(*   DocumentProcessor (chunk_text, load_file, process_directory),         *)
(*   VectorStore (add_documents, search, clear, count) and                 *)
(*   ChatbotService (reload_documents, load_documents).                    *)
(* Strings are sequences of one-character strings; Python indices are      *)
(* 0-based and are kept 0-based here (PySlice, RFind).                     *)
(***************************************************************************)
EXTENDS Integers, Sequences, FiniteSets, TLC

\* ------------------------------------------------------------------ bounds
MaxLen == 6      \* longest text handed to chunk_text
MaxMarks == 3    \* most boundary / whitespace characters in such a text
MaxSize == 5     \* largest chunk_size
MaxIter == 9     \* most iterations of the chunk_text loop that are followed

\* --------------------------------------------------------------- settings
DefaultChunkSize == 500
DefaultChunkOverlap == 50

\* ------------------------------------------------------------- characters
NL == "\n"
SP == " "
DOT == "."
Chars == {"a", DOT, NL, SP}
\* str.strip() with no argument removes whitespace
Whitespace == {SP, NL}

VARIABLES
    chunk_size,     \* DocumentProcessor.chunk_size
    chunk_overlap,  \* DocumentProcessor.chunk_overlap
    text,           \* chunk_text: the argument
    start,          \* chunk_text: the cursor
    end,            \* chunk_text: window end of the last iteration
    chunk,          \* chunk_text: the window of the last iteration, before strip()
    more,           \* chunk_text: whether `end < text_length` held in the last iteration
    chunks,         \* chunk_text: the result list
    covered,        \* history: 0-based positions of text inside some appended chunk
    iter,           \* history: iterations of the while loop taken
    pc,             \* chunk_text: "idle", "loop" (in the while loop) or "done" (returned)
    dir_exists,     \* os.path.exists(directory)
    walk,           \* the (root, file) pairs os.walk yields, in order; readable: whether
                    \* open/read succeeds, content: what it then returns
    pd_i,           \* process_directory: index in walk of the file at hand
    documents,      \* process_directory: the result list
    processed_files,\* process_directory: the counter
    pd_pc,          \* process_directory: "idle", "files", "chunking", "returned", "raised"
    collection,     \* VectorStore.collection: the entries, in insertion order
    last_op,        \* history: the last VectorStore call: "none", "add", "search", "clear"
    last_outcome,   \* history: "ok", or the error that call raised
    last_docs,      \* history: the batch of the last add_documents
    last_fail_at,   \* history: which entry's encode() raised in the last add (0: none)
    last_top_k,     \* history: top_k of the last search
    last_result,    \* history: what the last search returned
    prev_collection,\* history: the collection before the last call
    inserted,       \* history: batch lengths of the successful adds since the last clear, summed
    cleared,        \* history: whether clear() was ever called
    svc_pc,         \* reload_documents: "idle", "loading", "done" (returned), "raised"
    reload_prior    \* history: the collection when reload_documents was called

chunkVars == <<text, start, end, chunk, more, chunks, covered, iter, pc>>
cfgVars == <<chunk_size, chunk_overlap>>
dirVars == <<dir_exists, walk, pd_i, documents, processed_files, pd_pc>>

idxVars == <<collection, last_op, last_outcome, last_docs, last_fail_at, last_top_k,
             last_result, prev_collection, inserted, cleared>>

svcVars == <<svc_pc, reload_prior>>

vars == <<cfgVars, chunkVars, dirVars, idxVars, svcVars>>

\* ---------------------------------------------------------------- helpers
Min(a, b) == IF a < b THEN a ELSE b
Max(a, b) == IF a > b THEN a ELSE b

\* all sequences over S of length at most n
SeqUpTo(S, n) == UNION {[1..k -> S] : k \in 0..n}

\* number of characters of t other than the letter
Marks(t) == Cardinality({i \in 1..Len(t) : t[i] # "a"})

\* Python slice index normalisation: negative counts from the end, then clamp
PyIndex(i, n) == IF i < 0 THEN Max(i + n, 0) ELSE Min(i, n)

\* s[a:b] of Python, a and b 0-based and possibly negative or out of range
PySlice(s, a, b) ==
    LET lo == PyIndex(a, Len(s))
        hi == PyIndex(b, Len(s))
    IN  IF lo < hi THEN SubSeq(s, lo + 1, hi) ELSE <<>>

\* s.rfind(c): the greatest 0-based index of c in s, -1 when absent
RFind(s, c) ==
    LET hits == {i \in 1..Len(s) : s[i] = c}
    IN  IF hits = {} THEN -1
        ELSE (CHOOSE i \in hits : \A j \in hits : j <= i) - 1

\* number of leading / trailing whitespace characters of s
LeadWs(s) ==
    LET non == {i \in 1..Len(s) : s[i] \notin Whitespace}
    IN  IF non = {} THEN Len(s)
        ELSE (CHOOSE i \in non : \A j \in non : i <= j) - 1
TrailWs(s) ==
    LET non == {i \in 1..Len(s) : s[i] \notin Whitespace}
    IN  IF non = {} THEN Len(s)
        ELSE Len(s) - (CHOOSE i \in non : \A j \in non : j <= i)

\* faulty variant: only the leading whitespace removed (lstrip)
Strip_LeadingOnly(s) ==
    IF LeadWs(s) = Len(s) THEN <<>> ELSE SubSeq(s, LeadWs(s) + 1, Len(s))

\* s.strip()
Strip(s) ==
    IF LeadWs(s) = Len(s) THEN <<>>
    ELSE SubSeq(s, LeadWs(s) + 1, Len(s) - TrailWs(s))

\* ------------------------------------------------------------- chunk_text
\* chunk = text[start:end] with end = start + chunk_size
Window(t, s, size) == PySlice(t, s, s + size)

\* break_point = max(last_period, last_newline, last_space)
BreakPoint(c) == Max(RFind(c, DOT), Max(RFind(c, NL), RFind(c, SP)))

\* faulty variant: any boundary found is used, however early in the window
BreakTaken_Always(bp, size) == bp >= 0

\* faulty variant: the midpoint itself accepted as a break point
BreakTaken_AtMidpoint(bp, size) == 2 * bp >= size

\* break_point > self.chunk_size * 0.5
BreakTaken(bp, size) == 2 * bp > size

\* `if end < text_length` and `if break_point > ...` both taken
Truncates(t, s, size) ==
    /\ s + size < Len(t)
    /\ BreakTaken(BreakPoint(Window(t, s, size)), size)

\* the window after the boundary adjustment (before strip)
CutChunk(t, s, size) ==
    IF Truncates(t, s, size)
    THEN PySlice(Window(t, s, size), 0, BreakPoint(Window(t, s, size)) + 1)
    ELSE Window(t, s, size)

\* `end` after the boundary adjustment
CutEnd(t, s, size) ==
    IF Truncates(t, s, size)
    THEN s + BreakPoint(Window(t, s, size)) + 1
    ELSE s + size

\* faulty variant: the overlap added instead of subtracted
NextStart_Forward(e, overlap) == e + overlap

\* start = end - self.chunk_overlap
NextStart(e, overlap) == e - overlap

\* 0-based positions of t that the appended (stripped) chunk occupies
ChunkPositions(t, s, size) ==
    LET lo == PyIndex(s, Len(t))
        c  == CutChunk(t, s, size)
    IN  IF Strip(c) = <<>> THEN {}
        ELSE (lo + LeadWs(c)) .. (lo + Len(c) - TrailWs(c) - 1)

\* one iteration of `while start < text_length`
ChunkStep ==
    /\ pc = "loop"
    /\ start < Len(text)
    /\ iter < MaxIter
    /\ chunk' = CutChunk(text, start, chunk_size)
    /\ end' = CutEnd(text, start, chunk_size)
    /\ more' = (start + chunk_size < Len(text))
    /\ chunks' = IF Strip(chunk') # <<>> THEN Append(chunks, Strip(chunk')) ELSE chunks
    /\ covered' = covered \cup ChunkPositions(text, start, chunk_size)
    /\ start' = NextStart(end', chunk_overlap)
    /\ iter' = iter + 1
    /\ UNCHANGED <<chunk_size, chunk_overlap, text, pc>>
    /\ UNCHANGED <<dirVars, idxVars, svcVars>>

\* the loop condition fails: `return chunks`
ChunkReturn ==
    /\ pc = "loop"
    /\ start >= Len(text)
    /\ pc' = "done"
    /\ UNCHANGED <<chunk_size, chunk_overlap, text, start, end, chunk, more, chunks,
                   covered, iter>>
    /\ UNCHANGED <<dirVars, idxVars, svcVars>>

\* no process_directory call in progress
DirIdle ==
    /\ dir_exists = TRUE
    /\ walk = <<>>
    /\ pd_i = 1
    /\ documents = <<>>
    /\ processed_files = 0
    /\ pd_pc = "idle"

\* a VectorStore just constructed: create_collection gave an empty collection
IndexFresh ==
    /\ collection = <<>>
    /\ last_op = "none"
    /\ last_outcome = "ok"
    /\ last_docs = <<>>
    /\ last_fail_at = 0
    /\ last_top_k = 0
    /\ last_result = <<>>
    /\ prev_collection = <<>>
    /\ inserted = 0
    /\ cleared = FALSE

\* no reload_documents call in progress
ServiceIdle ==
    /\ svc_pc = "idle"
    /\ reload_prior = <<>>

\* chunk_text(text) called on any text, any chunk_size > 0, 0 <= overlap < chunk_size
InitChunk ==
    /\ text \in {t \in SeqUpTo(Chars, MaxLen) : Marks(t) <= MaxMarks}
    /\ chunk_size \in 1..MaxSize
    /\ chunk_overlap \in 0..(chunk_size - 1)
    /\ start = 0
    /\ end = 0
    /\ chunk = <<>>
    /\ more = FALSE
    /\ chunks = <<>>
    /\ covered = {}
    /\ iter = 0
    /\ pc = "loop"
    /\ DirIdle
    /\ IndexFresh
    /\ ServiceIdle

NextChunk == ChunkStep \/ ChunkReturn

SpecChunk == InitChunk /\ [][NextChunk]_vars

\* ===================================================== claims: chunk_text

\* C1: with chunk_size > 0 and 0 <= overlap < chunk_size, the cursor `start`
\* makes forward progress on every iteration of the loop (so the loop ends).
C1_ForwardProgress == [][ChunkStep => start' > start]_vars

\* C2: a text shorter than chunk_size (with a non-empty trimmed form) yields
\* exactly one chunk, the whitespace-trimmed text.
C2_ShortTextOneChunk ==
    (pc = "done" /\ Len(text) < chunk_size /\ Strip(text) # <<>>)
        => chunks = <<Strip(text)>>

\* C7: when chunk_text returns, every non-whitespace position of the text lies
\* inside at least one appended chunk.
C7_NonWhitespaceCovered ==
    pc = "done" =>
        \A i \in 1..Len(text) : text[i] \notin Whitespace => (i - 1) \in covered

\* C7 witness: a returned call with several chunks where whitespace was trimmed
\* at a chunk edge and the remaining positions are all covered.
C7_Witness ==
    /\ pc = "done"
    /\ Len(chunks) >= 2
    /\ \E i \in 1..Len(text) : text[i] \in Whitespace /\ (i - 1) \notin covered
    /\ \E i \in 1..Len(text) : text[i] \notin Whitespace

\* greatest 0-based index in w of any of '.', newline, space; -1 when none
RightmostBoundary(w) ==
    LET hits == {i \in 1..Len(w) : w[i] \in {DOT, NL, SP}}
    IN  IF hits = {} THEN -1
        ELSE (CHOOSE i \in hits : \A j \in hits : j <= i) - 1

\* the boundary in priority order: rightmost '.', else rightmost newline, else
\* rightmost space
PriorityBoundary(w) ==
    IF RFind(w, DOT) >= 0 THEN RFind(w, DOT)
    ELSE IF RFind(w, NL) >= 0 THEN RFind(w, NL)
    ELSE RFind(w, SP)

\* C10 as stated: when more text follows the window, the boundary is picked in
\* priority order ('.', then newline, then space) and the window is cut just
\* after it exactly when its position is > chunk_size * 0.5.
C10_PriorityOrder ==
    [][(ChunkStep /\ start + chunk_size < Len(text)) =>
        LET w == Window(text, start, chunk_size)
            p == PriorityBoundary(w)
        IN  IF 2 * p > chunk_size
            THEN chunk' = SubSeq(w, 1, p + 1) /\ end' = start + p + 1
            ELSE chunk' = w /\ end' = start + chunk_size]_vars

\* C10 amended: when more text follows the window, the boundary is the
\* rightmost occurrence of any of '.', newline and space (no priority among
\* them), and the window is cut just after it exactly when its position is
\* > chunk_size * 0.5; otherwise the full window is kept.
C10_RightmostOfAny ==
    [][(ChunkStep /\ start + chunk_size < Len(text)) =>
        LET w == Window(text, start, chunk_size)
            p == RightmostBoundary(w)
        IN  IF 2 * p > chunk_size
            THEN chunk' = SubSeq(w, 1, p + 1) /\ end' = start + p + 1
            ELSE chunk' = w /\ end' = start + chunk_size]_vars

\* C10 witness: a window cut just after a space although a '.' occurs earlier
\* in it, at or before the midpoint.
C10_Witness ==
    /\ iter >= 1
    /\ more
    /\ Len(chunk) < chunk_size
    /\ chunk[Len(chunk)] = SP
    /\ RFind(chunk, DOT) >= 0
    /\ 2 * RFind(chunk, DOT) <= chunk_size

\* c occurs in t as a run of consecutive characters
IsSubstring(c, t) ==
    \E k \in 0..(Len(t) - Len(c)) : SubSeq(t, k + 1, k + Len(c)) = c

\* C11: every chunk appended by chunk_text is a non-empty contiguous substring
\* of the text, has no leading or trailing whitespace and is at most chunk_size
\* long; the empty text yields the empty list.
C11_ChunksWellFormed ==
    /\ \A k \in 1..Len(chunks) :
          /\ chunks[k] # <<>>
          /\ IsSubstring(chunks[k], text)
          /\ chunks[k][1] \notin Whitespace
          /\ chunks[k][Len(chunks[k])] \notin Whitespace
          /\ Len(chunks[k]) <= chunk_size
    /\ (pc = "done" /\ text = <<>>) => chunks = <<>>

\* C11 witness: a returned call with a full-size chunk and a chunk that lost
\* whitespace at its edge.
C11_Witness ==
    /\ pc = "done"
    /\ Len(chunks) >= 2
    /\ \E k \in 1..Len(chunks) : Len(chunks[k]) = chunk_size
    /\ Len(Strip(chunk)) < Len(chunk)

\* C13: when 0 <= 2 * overlap <= chunk_size, every iteration of the loop moves
\* `start` strictly forward (a truncated window ends more than `overlap`
\* characters past `start`), `start` is never negative, and the loop takes at
\* most len(text) iterations.
C13_StrictProgress ==
    [][(ChunkStep /\ 2 * chunk_overlap <= chunk_size) =>
          /\ start >= 0
          /\ end' - start > chunk_overlap
          /\ start' > start
          /\ iter' <= Len(text)]_vars

\* C13 witness: with 2 * overlap <= chunk_size and overlap > 0, an iteration
\* has just cut its window at a boundary and moved `start` forward.
C13_Witness ==
    /\ 2 * chunk_overlap <= chunk_size
    /\ chunk_overlap >= 1
    /\ iter >= 1
    /\ more
    /\ Len(chunk) < chunk_size
    /\ start > 0

\* ====================================================== process_directory
MaxFiles == 2    \* most files os.walk yields
MaxDirSize == 2  \* largest chunk_size used when a directory is processed

\* the directory and one subdirectory of it, as os.walk names them
Roots == << <<"d">>, <<"d", "/", "s">> >>

\* file names: a text file, one with an upper-case extension, an unsupported
\* type and a hidden file
FileNames == { <<"n", ".", "t", "x", "t">>, <<"m", ".", "T", "X", "T">>,
               <<"r", ".", "m", "d">>, <<".", "h", ".", "t", "x", "t">> }

\* contents a file may hold
FileTexts == { <<>>, <<SP>>, <<"a">>, <<"a", "a">>, <<"a", SP, "a">> }

\* os.path.join(root, file)
PathJoin(root, file) == root \o <<"/">> \o file

\* one character of str.lower()
LowerChar(c) == IF c = "T" THEN "t" ELSE IF c = "X" THEN "x" ELSE c

\* str.lower()
Lower(s) == [i \in 1..Len(s) |-> LowerChar(s[i])]

\* Path(file_path).suffix: from the last '.' of the final component, unless that
\* dot leads or ends the name
Suffix(path) ==
    LET name == PySlice(path, RFind(path, "/") + 1, Len(path))
        i    == RFind(name, ".")
    IN  IF 0 < i /\ i < Len(name) - 1 THEN PySlice(name, i, Len(name)) ELSE <<>>

\* file.startswith('.')
IsHidden(file) == Len(file) >= 1 /\ file[1] = "."

\* load_file raises: ValueError for an extension other than .txt, or whatever
\* load_text_file re-raises
LoadFails(f) ==
    \/ Lower(Suffix(PathJoin(f.root, f.file))) # <<".", "t", "x", "t">>
    \/ ~f.readable

\* faulty variant: the error of one file leaves the loop
OnLoadError_Propagate == "raise"

\* `except Exception as e: logger.error(...)`: the loop goes on with the next file
OnLoadError == "continue"

\* faulty variant: chunk_index counted from 1
Document_OneBased(f, cs, i) ==
    [content |-> cs[i],
     metadata |-> [source |-> f.file, chunk_index |-> i,
                   total_chunks |-> Len(cs), file_path |-> PathJoin(f.root, f.file)]]

\* the dict appended for chunk number i (1-based here, enumerate's i + 1)
Document(f, cs, i) ==
    [content |-> cs[i],
     metadata |-> [source |-> f.file, chunk_index |-> i - 1,
                   total_chunks |-> Len(cs), file_path |-> PathJoin(f.root, f.file)]]

\* `if not os.path.exists(directory): raise FileNotFoundError`; else the loop starts
PD_Start ==
    /\ pd_pc = "idle"
    /\ pd_pc' = IF dir_exists THEN "files" ELSE "raised"
    /\ documents' = <<>>
    /\ processed_files' = 0
    /\ pd_i' = 1
    /\ UNCHANGED <<dir_exists, walk, cfgVars, idxVars, svcVars, chunkVars>>

\* `if file.startswith('.'): continue`
PD_SkipHidden ==
    /\ pd_pc = "files"
    /\ pd_i <= Len(walk)
    /\ IsHidden(walk[pd_i].file)
    /\ pd_i' = pd_i + 1
    /\ UNCHANGED <<dir_exists, walk, documents, processed_files, pd_pc,
                   cfgVars, idxVars, svcVars, chunkVars>>

\* load_file raises inside the try block
PD_LoadError ==
    /\ pd_pc = "files"
    /\ pd_i <= Len(walk)
    /\ ~IsHidden(walk[pd_i].file)
    /\ LoadFails(walk[pd_i])
    /\ IF OnLoadError = "continue"
       THEN pd_i' = pd_i + 1 /\ pd_pc' = pd_pc
       ELSE pd_i' = pd_i /\ pd_pc' = "raised"
    /\ UNCHANGED <<dir_exists, walk, documents, processed_files, cfgVars, idxVars, svcVars, chunkVars>>

\* `if not content.strip(): continue`
PD_EmptyFile ==
    /\ pd_pc = "files"
    /\ pd_i <= Len(walk)
    /\ ~IsHidden(walk[pd_i].file)
    /\ ~LoadFails(walk[pd_i])
    /\ Strip(walk[pd_i].content) = <<>>
    /\ pd_i' = pd_i + 1
    /\ UNCHANGED <<dir_exists, walk, documents, processed_files, pd_pc,
                   cfgVars, idxVars, svcVars, chunkVars>>

\* `chunks = self.chunk_text(content)`: the call is entered
PD_BeginChunk ==
    /\ pd_pc = "files"
    /\ pd_i <= Len(walk)
    /\ ~IsHidden(walk[pd_i].file)
    /\ ~LoadFails(walk[pd_i])
    /\ Strip(walk[pd_i].content) # <<>>
    /\ pd_pc' = "chunking"
    /\ text' = walk[pd_i].content
    /\ start' = 0
    /\ end' = 0
    /\ chunk' = <<>>
    /\ more' = FALSE
    /\ chunks' = <<>>
    /\ covered' = {}
    /\ iter' = 0
    /\ pc' = "loop"
    /\ UNCHANGED <<dir_exists, walk, pd_i, documents, processed_files, cfgVars, idxVars, svcVars>>

\* chunk_text has returned: one document per chunk, processed_files += 1
PD_Collect ==
    /\ pd_pc = "chunking"
    /\ pc = "done"
    /\ documents' = documents \o
            [i \in 1..Len(chunks) |-> Document(walk[pd_i], chunks, i)]
    /\ processed_files' = processed_files + 1
    /\ pd_i' = pd_i + 1
    /\ pd_pc' = "files"
    /\ pc' = "idle"
    /\ UNCHANGED <<dir_exists, walk, cfgVars, idxVars, svcVars, text, start, end, chunk, more, chunks,
                   covered, iter>>

\* os.walk is exhausted: `return documents`
PD_Return ==
    /\ pd_pc = "files"
    /\ pd_i > Len(walk)
    /\ pd_pc' = "returned"
    /\ UNCHANGED <<dir_exists, walk, pd_i, documents, processed_files,
                   cfgVars, idxVars, svcVars, chunkVars>>

\* index in Roots of the directory an entry lies in
RootIndex(f) == CHOOSE k \in 1..Len(Roots) : Roots[k] = f.root

\* the listings os.walk can yield: every (root, file) once, the top directory's
\* files before the subdirectory's
Walks ==
    LET Entries == [root : {Roots[k] : k \in 1..Len(Roots)}, file : FileNames,
                    readable : BOOLEAN, content : FileTexts]
    IN  {w \in SeqUpTo({e \in Entries : ~e.readable => e.content = <<>>}, MaxFiles) :
            \A i, j \in 1..Len(w) :
                i < j => /\ RootIndex(w[i]) <= RootIndex(w[j])
                         /\ <<w[i].root, w[i].file>> # <<w[j].root, w[j].file>>}

\* process_directory(directory) about to be called on any directory
InitDir ==
    /\ chunk_size \in 1..MaxDirSize
    /\ chunk_overlap \in 0..(chunk_size - 1)
    /\ text = <<>>
    /\ start = 0
    /\ end = 0
    /\ chunk = <<>>
    /\ more = FALSE
    /\ chunks = <<>>
    /\ covered = {}
    /\ iter = 0
    /\ pc = "idle"
    /\ dir_exists \in BOOLEAN
    /\ walk \in Walks
    /\ pd_i = 1
    /\ documents = <<>>
    /\ processed_files = 0
    /\ pd_pc = "idle"
    /\ IndexFresh
    /\ ServiceIdle

NextDir ==
    \/ PD_Start
    \/ PD_SkipHidden
    \/ PD_LoadError
    \/ PD_EmptyFile
    \/ PD_BeginChunk
    \/ ChunkStep
    \/ ChunkReturn
    \/ PD_Collect
    \/ PD_Return

SpecDir == InitDir /\ [][NextDir]_vars

\* =============================================== claims: process_directory

\* the documents of the result that satisfy P, in emission order
DocsWhere(P(_)) == SelectSeq(documents, P)

\* chunk_index runs 0..total_chunks-1 in order and total_chunks is shared
Contiguous(ds) ==
    \A k \in 1..Len(ds) : ds[k].metadata.chunk_index = k - 1 /\ ds[k].metadata.total_chunks = Len(ds)

\* C8 as stated: in the result, the chunks sharing one source identifier carry
\* the same total_chunks and chunk_index values 0..total_chunks-1 in order.
C8_PerSourceIdentifier ==
    pd_pc = "returned" =>
        \A n \in FileNames :
            LET Same(d) == d.metadata.source = n IN Contiguous(DocsWhere(Same))

\* C8 amended: in the result, the chunks of one source file (those sharing one
\* file_path) carry the same total_chunks and chunk_index values
\* 0..total_chunks-1 in emission order, with no gaps or duplicates.
C8_PerFilePath ==
    pd_pc = "returned" =>
        \A k \in 1..Len(walk) :
            LET Same(d) == d.metadata.file_path = PathJoin(walk[k].root, walk[k].file)
            IN  Contiguous(DocsWhere(Same))

\* C8 witness: two files of the same name in different directories, each with
\* chunks in the result, of different totals.
C8_Witness ==
    /\ pd_pc = "returned"
    /\ \E a, b \in 1..Len(documents) :
          /\ documents[a].metadata.source = documents[b].metadata.source
          /\ documents[a].metadata.file_path # documents[b].metadata.file_path
          /\ documents[a].metadata.total_chunks # documents[b].metadata.total_chunks
          /\ documents[b].metadata.total_chunks >= 2

\* C9: a file whose loading fails contributes no chunks and does not stop the
\* batch: process_directory of an existing directory never raises, and when it
\* returns, every failing file has no chunk in the result while every other
\* visible, loadable, non-blank file has its chunks there.
C9_FailedFileSkipped ==
    /\ dir_exists => pd_pc # "raised"
    /\ pd_pc = "returned" =>
          \A k \in 1..Len(walk) :
              LET Same(d) == d.metadata.file_path = PathJoin(walk[k].root, walk[k].file)
                  f == walk[k]
              IN  /\ (~IsHidden(f.file) /\ LoadFails(f)) => DocsWhere(Same) = <<>>
                  /\ (~IsHidden(f.file) /\ ~LoadFails(f) /\ Strip(f.content) # <<>>)
                        => /\ Len(DocsWhere(Same)) >= 1
                           /\ DocsWhere(Same)[1].content
                                = Strip(CutChunk(f.content, 0, chunk_size))

\* C9 witness: the call returned; a file that failed to load precedes, and
\* another follows, files whose chunks are in the result.
C9_Witness ==
    /\ pd_pc = "returned"
    /\ \E k \in 1..Len(walk) :
          /\ ~IsHidden(walk[k].file)
          /\ LoadFails(walk[k])
          /\ \E j \in (k + 1)..Len(walk) : \E a \in 1..Len(documents) :
                documents[a].metadata.file_path = PathJoin(walk[j].root, walk[j].file)

\* ============================================================ VectorStore
MaxCount == 4    \* most entries the collection is grown to
MaxBatch == 2    \* longest batch handed to add_documents
MaxTopK == 3     \* largest top_k handed to search

\* the documents a batch is drawn from (dicts with 'content' and 'metadata')
SampleDocs ==
    { Document([root |-> Roots[1], file |-> <<"n", ".", "t", "x", "t">>],
               << <<"a">>, <<"a", "a">> >>, i) : i \in 1..2 }

\* str(n) for n >= 0: the decimal digits
RECURSIVE Digits(_)
Digits(n) ==
    LET d == <<"0", "1", "2", "3", "4", "5", "6", "7", "8", "9">>[(n % 10) + 1]
    IN  IF n < 10 THEN <<d>> ELSE Digits(n \div 10) \o <<d>>

\* faulty variant: the id numbered within the batch only
DocId_NoCount(count, i) == <<"d", "o", "c", "_">> \o Digits(i)

\* f"doc_{self.collection.count() + i}"
DocId(count, i) == <<"d", "o", "c", "_">> \o Digits(count + i)

\* the entries collection.add receives for a batch: ids, documents, metadatas
\* (the embedding of an entry is a function of its document and is left out)
NewEntries(coll, docs) ==
    [i \in 1..Len(docs) |->
        [id |-> DocId(Len(coll), i - 1), document |-> docs[i].content,
         metadata |-> docs[i].metadata]]

\* faulty variant: every entry added to the collection as soon as it is embedded
AddDocuments_PerEntry(coll, docs, fail_at) ==
    IF docs = <<>> THEN coll
    ELSE IF fail_at > 0 THEN coll \o SubSeq(NewEntries(coll, docs), 1, fail_at - 1)
    ELSE coll \o NewEntries(coll, docs)

\* add_documents: the collection afterwards. An empty batch returns at once;
\* encode() raising for entry fail_at leaves the loop before collection.add is
\* reached; otherwise the whole batch is added in one collection.add call.
AddDocuments(coll, docs, fail_at) ==
    IF docs = <<>> THEN coll
    ELSE IF fail_at > 0 THEN coll
    ELSE coll \o NewEntries(coll, docs)

\* faulty variant: n_results = top_k
NResults_NoMin(top_k, count) == top_k

\* n_results = min(top_k, self.collection.count())
NResults(top_k, count) == Min(top_k, count)

\* collection.query(n_results = n): the documents of n distinct entries, nearest
\* first; the distances are the embedding model's, so any order may come back.
\* The client raises NotEnoughElements when n exceeds the number of entries.
QueryDocuments(coll, n) ==
    { [i \in 1..n |-> coll[p[i]].document] :
        p \in {q \in [1..n -> 1..Len(coll)] :
                  \A i, j \in 1..n : i # j => q[i] # q[j]} }

\* search: what the call can end with
Search(coll, top_k, embed_ok) ==
    IF Len(coll) = 0
    THEN {[outcome |-> "ok", result |-> <<>>]}
    ELSE IF ~embed_ok
    THEN {[outcome |-> "EmbeddingFailure", result |-> <<>>]}
    ELSE IF NResults(top_k, Len(coll)) > Len(coll)
    THEN {[outcome |-> "NotEnoughElements", result |-> <<>>]}
    ELSE {[outcome |-> "ok", result |-> r] :
             r \in QueryDocuments(coll, NResults(top_k, Len(coll)))}

\* faulty variant: the collection is fetched again instead of deleted and re-created
Clear_Keeps(coll) == coll

\* clear: delete_collection, then create_collection
Clear(coll) == <<>>

\* count
Count == Len(collection)

\* add_documents(docs), with encode() failing at entry fail_at (0: not at all)
AddCall ==
    \E docs \in SeqUpTo(SampleDocs, MaxBatch) : \E fail_at \in 0..Len(docs) :
        /\ Len(collection) + Len(docs) <= MaxCount
        /\ collection' = AddDocuments(collection, docs, fail_at)
        /\ last_op' = "add"
        /\ last_outcome' = IF fail_at > 0 THEN "EmbeddingFailure" ELSE "ok"
        /\ last_docs' = docs
        /\ last_fail_at' = fail_at
        /\ prev_collection' = collection
        /\ inserted' = inserted + (IF fail_at > 0 THEN 0 ELSE Len(docs))
        /\ UNCHANGED <<last_top_k, last_result, cleared, cfgVars, chunkVars, dirVars, svcVars>>

\* search(query, top_k)
SearchCall ==
    \E top_k \in 1..MaxTopK : \E embed_ok \in BOOLEAN :
      \E r \in Search(collection, top_k, embed_ok) :
        /\ last_op' = "search"
        /\ last_outcome' = r.outcome
        /\ last_result' = r.result
        /\ last_top_k' = top_k
        /\ prev_collection' = collection
        /\ UNCHANGED <<collection, last_docs, last_fail_at, inserted, cleared,
                       cfgVars, chunkVars, dirVars, svcVars>>

\* clear()
ClearCall ==
    /\ collection' = Clear(collection)
    /\ last_op' = "clear"
    /\ last_outcome' = "ok"
    /\ prev_collection' = collection
    /\ inserted' = 0
    /\ cleared' = TRUE
    /\ UNCHANGED <<last_docs, last_fail_at, last_top_k, last_result,
                   cfgVars, chunkVars, dirVars, svcVars>>

\* one VectorStore, freshly constructed, then any sequence of calls
InitIndex ==
    /\ chunk_size = DefaultChunkSize
    /\ chunk_overlap = DefaultChunkOverlap
    /\ text = <<>>
    /\ start = 0
    /\ end = 0
    /\ chunk = <<>>
    /\ more = FALSE
    /\ chunks = <<>>
    /\ covered = {}
    /\ iter = 0
    /\ pc = "idle"
    /\ DirIdle
    /\ IndexFresh
    /\ ServiceIdle

NextIndex == AddCall \/ SearchCall \/ ClearCall

SpecIndex == InitIndex /\ [][NextIndex]_vars

\* ===================================================== claims: VectorStore

\* C3 as stated: when encode() fails for an entry of a batch, add_documents
\* aborts and the entries of the batch before the failing one stay inserted.
C3_PrecedingEntriesRemain ==
    (last_op = "add" /\ last_outcome = "EmbeddingFailure") =>
        Len(collection) = Len(prev_collection) + (last_fail_at - 1)

\* C3 amended: when encode() fails for an entry of a batch, add_documents
\* aborts with the error and no entry of that batch is inserted: the collection
\* is what it was before the call.
C3_FailedAddInsertsNothing ==
    (last_op = "add" /\ last_outcome = "EmbeddingFailure") =>
        collection = prev_collection

\* C3 witness: an add into a non-empty collection fails at its second entry.
C3_Witness ==
    /\ last_op = "add"
    /\ last_outcome = "EmbeddingFailure"
    /\ last_fail_at = 2
    /\ Len(prev_collection) >= 1

\* C4: no two entries of the collection share an id.
C4_UniqueIds ==
    \A i, j \in 1..Len(collection) : i # j => collection[i].id # collection[j].id

\* C4 witness: after a clear, a batch of two was added to a non-empty collection.
C4_Witness ==
    /\ cleared
    /\ last_op = "add"
    /\ last_outcome = "ok"
    /\ Len(prev_collection) >= 1
    /\ Len(collection) = Len(prev_collection) + 2

\* C5: count() is the sum of the batch lengths of the successful adds since the
\* last clear (or creation): a successful add of N entries raises it by N, an
\* empty batch and a search leave it unchanged, clear sets it to 0.
C5_CountIsInserted ==
    /\ Count = inserted
    /\ (last_op = "add" /\ last_outcome = "ok")
          => Count = Len(prev_collection) + Len(last_docs)
    /\ last_op = "search" => Count = Len(prev_collection)
    /\ last_op = "clear" => Count = 0

\* C5 witness: after a clear and several adds, one of them failed, a batch of
\* one brought count() to 3.
C5_Witness ==
    /\ cleared
    /\ last_op = "add"
    /\ last_outcome = "ok"
    /\ Len(last_docs) = 1
    /\ inserted = 3
    /\ Count = 3

\* C6: search with top_k >= 1 returns exactly min(top_k, count()) contents and
\* never fails for want of entries; on an empty collection it returns <<>>.
C6_SearchSize ==
    last_op = "search" =>
        /\ last_outcome # "NotEnoughElements"
        /\ last_outcome = "ok" =>
              Len(last_result) = Min(last_top_k, Len(prev_collection))
        /\ Len(prev_collection) = 0 => (last_outcome = "ok" /\ last_result = <<>>)

\* C6 witness: a search asking for more than the collection's two entries
\* returned exactly two.
C6_Witness ==
    /\ last_op = "search"
    /\ last_outcome = "ok"
    /\ Len(prev_collection) = 2
    /\ last_top_k = 3
    /\ Len(last_result) = 2

\* ======================================= ChatbotService.reload_documents
MaxPrior == 2    \* most entries the index holds when reload_documents is called

\* the batch an earlier ingestion added: k chunks of one file
PriorDocs(k) ==
    [i \in 1..k |->
        Document([root |-> Roots[1], file |-> <<"n", ".", "t", "x", "t">>],
                 [j \in 1..k |-> <<"a">>], i)]

\* the listings of a data directory without subdirectories, its file names in
\* lower case
DataDirWalks ==
    {w \in Walks : \A i \in 1..Len(w) :
        w[i].root = Roots[1] /\ Lower(w[i].file) = w[i].file}

\* `self.vector_store.clear()`, the first step of reload_documents
Reload_Clear ==
    /\ svc_pc = "idle"
    /\ svc_pc' = "loading"
    /\ reload_prior' = collection
    /\ collection' = Clear(collection)
    /\ last_op' = "clear"
    /\ last_outcome' = "ok"
    /\ prev_collection' = collection
    /\ inserted' = 0
    /\ cleared' = TRUE
    /\ UNCHANGED <<last_docs, last_fail_at, last_top_k, last_result,
                   cfgVars, chunkVars, dirVars>>

\* load_documents: `documents = self.document_processor.process_directory(data_dir)`
Load_ProcessDirectory ==
    /\ svc_pc = "loading"
    /\ PD_Start

\* load_documents: process_directory raised; logged and re-raised, and re-raised
\* again by reload_documents
Load_DirectoryError ==
    /\ svc_pc = "loading"
    /\ pd_pc = "raised"
    /\ svc_pc' = "raised"
    /\ UNCHANGED <<reload_prior, cfgVars, chunkVars, dirVars, idxVars>>

\* load_documents: `if documents: self.vector_store.add_documents(documents)`,
\* with encode() failing at entry fail_at (0: not at all); an error is logged and
\* re-raised through load_documents and reload_documents
Load_Add ==
    /\ svc_pc = "loading"
    /\ pd_pc = "returned"
    /\ documents # <<>>
    /\ \E fail_at \in 0..Len(documents) :
        /\ collection' = AddDocuments(collection, documents, fail_at)
        /\ last_op' = "add"
        /\ last_outcome' = IF fail_at > 0 THEN "EmbeddingFailure" ELSE "ok"
        /\ last_docs' = documents
        /\ last_fail_at' = fail_at
        /\ prev_collection' = collection
        /\ inserted' = inserted + (IF fail_at > 0 THEN 0 ELSE Len(documents))
        /\ svc_pc' = IF fail_at > 0 THEN "raised" ELSE "done"
    /\ UNCHANGED <<last_top_k, last_result, cleared, reload_prior,
                   cfgVars, chunkVars, dirVars>>

\* load_documents: `else: logger.warning("No documents found to load")`
Load_NoDocuments ==
    /\ svc_pc = "loading"
    /\ pd_pc = "returned"
    /\ documents = <<>>
    /\ svc_pc' = "done"
    /\ UNCHANGED <<reload_prior, cfgVars, chunkVars, dirVars, idxVars>>

\* a chat request after reload_documents has raised: vector_store.search
Search_AfterReload ==
    /\ svc_pc = "raised"
    /\ SearchCall

\* reload_documents(data_dir) about to be called on an index that an earlier
\* ingestion filled with 0..MaxPrior entries
InitService ==
    /\ chunk_size \in 1..MaxDirSize
    /\ chunk_overlap \in 0..(chunk_size - 1)
    /\ text = <<>>
    /\ start = 0
    /\ end = 0
    /\ chunk = <<>>
    /\ more = FALSE
    /\ chunks = <<>>
    /\ covered = {}
    /\ iter = 0
    /\ pc = "idle"
    /\ dir_exists \in BOOLEAN
    /\ walk \in DataDirWalks
    /\ ~dir_exists => walk = <<>>
    /\ pd_i = 1
    /\ documents = <<>>
    /\ processed_files = 0
    /\ pd_pc = "idle"
    /\ \E k \in 0..MaxPrior :
        /\ collection = NewEntries(<<>>, PriorDocs(k))
        /\ last_op = IF k = 0 THEN "none" ELSE "add"
        /\ last_docs = PriorDocs(k)
        /\ inserted = k
    /\ last_outcome = "ok"
    /\ last_fail_at = 0
    /\ last_top_k = 0
    /\ last_result = <<>>
    /\ prev_collection = <<>>
    /\ cleared = FALSE
    /\ ServiceIdle

NextService ==
    \/ Reload_Clear
    \/ Load_ProcessDirectory
    \/ PD_SkipHidden
    \/ PD_LoadError
    \/ PD_EmptyFile
    \/ PD_BeginChunk
    \/ ChunkStep
    \/ ChunkReturn
    \/ PD_Collect
    \/ PD_Return
    \/ Load_DirectoryError
    \/ Load_Add
    \/ Load_NoDocuments
    \/ Search_AfterReload

SpecService == InitService /\ [][NextService]_vars

\* ================================================ claims: reload_documents

\* C12: after a successful reload_documents, whatever the index held before, the
\* index holds exactly the chunks that reload produced from the data directory:
\* count() is their number and no earlier entry is kept.
C12_ReloadReplaces ==
    svc_pc = "done" =>
        /\ Count = Len(documents)
        /\ collection = NewEntries(<<>>, documents)

\* C12 witness: a reload of an index that held entries returned after adding a
\* different number of chunks.
C12_Witness ==
    /\ svc_pc = "done"
    /\ Len(reload_prior) >= 1
    /\ Len(documents) >= 2
    /\ Len(documents) # Len(reload_prior)
    /\ Count = Len(documents)

\* C14: when re-population fails after the clear step (data directory missing,
\* or add_documents raising on an embedding failure), reload_documents raises
\* and leaves the index empty: the earlier entries are not restored, and later
\* searches return the empty sequence.
C14_FailedReloadLeavesEmpty ==
    svc_pc = "raised" =>
        /\ Count = 0
        /\ last_op = "search" => (last_outcome = "ok" /\ last_result = <<>>)

\* C14 witness: the index held entries, the reload's add failed at its second
\* chunk, and a later search returned nothing.
C14_Witness ==
    /\ svc_pc = "raised"
    /\ Len(reload_prior) >= 1
    /\ Len(documents) >= 2
    /\ last_fail_at = 2
    /\ last_op = "search"
    /\ last_result = <<>>

====
